---- MODULE Spec2Model ----
(***************************************************************************)
(* Model of neon_client/client.py: the NeonAPI transport, the NeonResource *)
(* lazy proxy and the resource classes APIKey, User, Project and Branch.   *)
(*                                                                         *)
(* Representation.  Python values are strings ("None" is None, "0" the int *)
(* 0, "[]" the empty list ...).  A Python dict is a function whose domain  *)
(* is its key set.  An optional value is a sequence of length 0 or 1.  A   *)
(* path "a/b/c" is the sequence of its segments <<"a","b","c">>, and a     *)
(* formatted string f"x{y}" is the pair <<"x", y>>.  A response body text  *)
(* is the record [shape, list]: the shape of the document and the mappings *)
(* it carries; "empty" and "plain" are texts that are not JSON.            *)
(*                                                                         *)
(* The program is single-threaded and synchronous, so each call of a       *)
(* public operation is one action.  The state describes the most recent    *)
(* action of the caller: its inputs (last), the HTTP requests it put on    *)
(* the wire (sent), what it returned or raised (outcome) and the proxies   *)
(* the caller holds (objs).                                                *)
(***************************************************************************)
EXTENDS Integers, Sequences, FiniteSets, TLC

VARIABLES client, last, sent, outcome, objs

vars == <<client, last, sent, outcome, objs>>

\* ---------------------------------------------------------------- bounds
\* longest array a list endpoint answers with
MaxItems == 2

\* ------------------------------------------------------- program constants
VERSION == "0.1.0"
NEON_API_BASE_URL == "https://console.neon.tech/api/v2/"

\* ------------------------------------------------------------ value domains
EmptyMap == [x \in {} |-> "None"]

\* Python truthiness of the values the model uses
Truthy(v) == v \notin {"None", "0", "False", "''", "[]"}

\* raw mappings the server puts in its answers: a complete one, and one with
\* a falsy id, no name and a key the schema does not declare
Elements ==
  { [id |-> "a1", name |-> "n1"],
    [id |-> "0", extra |-> "x"] }

RECURSIVE SeqsUpTo(_, _)
SeqsUpTo(S, n) ==
  IF n = 0 THEN { <<>> }
  ELSE LET prev == SeqsUpTo(S, n - 1)
       IN prev \cup { Append(s, e) : s \in { t \in prev : Len(t) = n - 1 }, e \in S }

NotJson == { [shape |-> "empty", list |-> <<>>], [shape |-> "plain", list |-> <<>>] }

\* the JSON documents an endpoint answers with: a top-level array, an object
\* holding a "projects" or "branches" array, or a single object
Docs(shape) ==
  IF shape = "object"
  THEN { [shape |-> shape, list |-> <<e>>] : e \in Elements }
  ELSE { [shape |-> shape, list |-> l] : l \in SeqsUpTo(Elements, MaxItems) }

Statuses == {199, 200, 299, 399, 400, 599}

Responses(shape) == [status : Statuses, text : Docs(shape) \cup NotJson]

NoResponse == [status |-> 0, text |-> [shape |-> "empty", list |-> <<>>]]

\* ------------------------------------------------------------- compact_mapping
compact_mapping(obj) ==
  [k \in { j \in DOMAIN obj : obj[j] # "None" } |-> obj[k]]

\* ------------------------------------------------------------------- NeonAPI
\* NeonAPI.__init__: an absent or empty base_url selects the default
NeonAPI(api_key, base_url) ==
  [api_key    |-> api_key,
   base_url   |-> IF ~Truthy(base_url) THEN NEON_API_BASE_URL ELSE base_url,
   user_agent |-> <<"neon-client/", VERSION>>]

url_join(args) == args

Mandatory == {"Authorization", "Accept", "Content-Type", "User-Agent"}

\* set_headers with setdefault in place of assignment: a caller's value wins
set_headers_setdefault(c, headers) ==
  [n \in (DOMAIN headers) \cup Mandatory |->
     IF n \in DOMAIN headers THEN headers[n]
     ELSE CASE n = "Authorization" -> <<"Bearer ", c.api_key>>
            [] n = "Accept"        -> <<"application/json">>
            [] n = "Content-Type"  -> <<"application/json">>
            [] OTHER               -> c.user_agent]

\* the four assignments into the headers mapping of NeonAPI.request
set_headers(c, headers) ==
  [n \in (DOMAIN headers) \cup Mandatory |->
     CASE n = "Authorization" -> <<"Bearer ", c.api_key>>
       [] n = "Accept"        -> <<"application/json">>
       [] n = "Content-Type"  -> <<"application/json">>
       [] n = "User-Agent"    -> c.user_agent
       [] OTHER               -> headers[n]]

\* a status check that rejects everything outside 200..299
raise_for_status_non2xx(status) == ~(200 <= status /\ status <= 299)

\* requests.Response.raise_for_status raises HTTPError for the client and
\* server error classes only
raise_for_status(status) == 400 <= status /\ status < 600

\* requests.Response.json: the document the text denotes, or a decode error
json_decode(text) ==
  IF text \in NotJson THEN [ok |-> FALSE, val |-> <<>>]
  ELSE [ok |-> TRUE, val |-> <<text>>]

NoParams == [given |-> FALSE, map |-> EmptyMap]
NoJson == [given |-> FALSE, body |-> EmptyMap]
NoKw == [hgiven |-> FALSE, headers |-> EmptyMap, params |-> NoParams, json |-> NoJson]

\* request raising with the decoded message rather than the raw text
request_other_msg(c, method, path, kw, rsp) ==
  LET req == [method  |-> method,
              url     |-> <<c.base_url, path>>,
              headers |-> set_headers(c, IF kw.hgiven THEN kw.headers ELSE EmptyMap),
              params  |-> kw.params,
              json    |-> kw.json]
      d == json_decode(rsp.text)
  IN IF raise_for_status(rsp.status)
     THEN [sent |-> <<req>>, kind |-> "NeonClientException",
           msg |-> <<[shape |-> "message", list |-> <<>>]>>, json |-> <<>>]
     ELSE IF d.ok
          THEN [sent |-> <<req>>, kind |-> "ok", msg |-> <<>>, json |-> d.val]
          ELSE [sent |-> <<req>>, kind |-> "JSONDecodeError", msg |-> <<>>, json |-> <<>>]

\* request sending a failed attempt a second time
request_retry(c, method, path, kw, rsp) ==
  LET req == [method  |-> method,
              url     |-> <<c.base_url, path>>,
              headers |-> set_headers(c, IF kw.hgiven THEN kw.headers ELSE EmptyMap),
              params  |-> kw.params,
              json    |-> kw.json]
      d == json_decode(rsp.text)
  IN IF raise_for_status(rsp.status)
     THEN [sent |-> <<req, req>>, kind |-> "NeonClientException",
           msg |-> <<rsp.text>>, json |-> <<>>]
     ELSE IF d.ok
          THEN [sent |-> <<req>>, kind |-> "ok", msg |-> <<>>, json |-> d.val]
          ELSE [sent |-> <<req>>, kind |-> "JSONDecodeError", msg |-> <<>>, json |-> <<>>]

\* what a call of request puts on the wire and gives back:
\* kw.hgiven tells whether the caller passed headers=...
request(c, method, path, kw, rsp) ==
  LET headers == set_headers(c, IF kw.hgiven THEN kw.headers ELSE EmptyMap)
      req == [method  |-> method,
              url     |-> <<c.base_url, path>>,
              headers |-> headers,
              params  |-> kw.params,
              json    |-> kw.json]
      d == json_decode(rsp.text)
  IN IF raise_for_status(rsp.status)
     THEN [sent |-> <<req>>, kind |-> "NeonClientException",
           msg |-> <<rsp.text>>, json |-> <<>>]
     ELSE IF d.ok
          THEN [sent |-> <<req>>, kind |-> "ok", msg |-> <<>>, json |-> d.val]
          ELSE [sent |-> <<req>>, kind |-> "JSONDecodeError", msg |-> <<>>, json |-> <<>>]

\* -------------------------------------------------------------- schema layer
\* The argument value the request schemas reject.
Invalid == "<invalid>"

\* schema.ApiKeyCreateRequest(key_name=...): validation of the arguments
ApiKeyCreateRequest(key_name) ==
  IF key_name = Invalid THEN [ok |-> FALSE, obj |-> EmptyMap]
  ELSE [ok |-> TRUE, obj |-> [key_name |-> key_name]]

\* schema.BranchCreateRequest(**kwargs): validation of the arguments
BranchCreateRequest(kwargs) ==
  IF \E k \in DOMAIN kwargs : kwargs[k] = Invalid
  THEN [ok |-> FALSE, obj |-> EmptyMap]
  ELSE [ok |-> TRUE, obj |-> kwargs]

\* BaseModel.model_dump: the validated fields as a mapping
model_dump(obj) == obj

\* the fields the response schemas declare
ModelFields(data_model) == {"id", "name"}

\* BaseModel.model_construct(**data): declared fields present in the mapping
\* populate the view, the others stay None, undeclared keys are ignored
model_construct(data_model, data) ==
  [f \in ModelFields(data_model) |-> IF f \in DOMAIN data THEN data[f] ELSE "None"]

\* indexing the typed view as a mapping
view_index(view, key) ==
  IF key \in DOMAIN view THEN [kind |-> "value", val |-> view[key]]
  ELSE [kind |-> "KeyError", val |-> "None"]

\* -------------------------------------------------------------- NeonResource
\* NeonResource.__init__ ; built counts the constructions of the typed view
NeonResource(cls, obj, data_model) ==
  [cls |-> cls, data |-> obj, model |-> data_model, cached |-> <<>>, built |-> 0]

\* obj without the guard on the cached view: every access constructs again
obj_recompute(p) ==
  LET v == model_construct(p.model, p.data)
  IN [p |-> [p EXCEPT !.cached = <<v>>, !.built = IF @ < 2 THEN @ + 1 ELSE @],
      view |-> v]

\* the obj property: the proxy afterwards and the typed view returned
\* (a typed view is an object, hence truthy: "not cached" means "is None")
obj(p) ==
  IF p.cached = <<>>
  THEN LET v == model_construct(p.model, p.data)
       IN [p |-> [p EXCEPT !.cached = <<v>>, !.built = @ + 1], view |-> v]
  ELSE [p |-> p, view |-> p.cached[1]]

\* attributes found on the proxy itself, before the typed view is consulted
OwnAttr(p) == [_data_model |-> p.model]

\* NeonResource.__getattribute__
getattribute(p, name) ==
  IF name \in DOMAIN OwnAttr(p)
  THEN [p |-> p, kind |-> "value", val |-> OwnAttr(p)[name], view |-> <<>>]
  ELSE LET o == obj(p)
       IN IF name \in DOMAIN o.view
          THEN [p |-> o.p, kind |-> "value", val |-> o.view[name], view |-> <<o.view>>]
          ELSE [p |-> o.p, kind |-> "AttributeError", val |-> "None", view |-> <<o.view>>]

\* __getitem__ without the fallback to indexing
getitem_no_fallback(p, key) ==
  LET o == obj(p)
      a == IF key \in DOMAIN o.view THEN o.view[key] ELSE "None"
  IN [p |-> o.p, kind |-> "value", val |-> a, view |-> <<o.view>>]

\* NeonResource.__getitem__: getattr(self.obj, key, None) or self.obj[key]
getitem(p, key) ==
  LET o == obj(p)
      a == IF key \in DOMAIN o.view THEN o.view[key] ELSE "None"
      i == view_index(o.view, key)
  IN IF Truthy(a)
     THEN [p |-> o.p, kind |-> "value", val |-> a, view |-> <<o.view>>]
     ELSE [p |-> o.p, kind |-> i.kind, val |-> i.val, view |-> <<o.view>>]

\* NeonResource.__repr__
repr(p) ==
  LET o == obj(p)
  IN [p |-> o.p, kind |-> "repr", val |-> "None", view |-> <<o.view>>]

\* ------------------------------------------------------------ resource classes
Out(kind, msg, json, ret) ==
  [kind |-> kind, msg |-> msg, json |-> json, ret |-> ret, val |-> "None", view |-> <<>>]

\* an exception of request leaves the resource operation unhandled
Raise(r) == [sent |-> r.sent, out |-> Out(r.kind, r.msg, <<>>, <<>>)]

Return(r, ret) == [sent |-> r.sent, out |-> Out("ok", <<>>, r.json, ret)]

\* the comprehension walking the array backwards
wrap_each_reversed(cls, items, data_model) ==
  [i \in 1..Len(items) |-> NeonResource(cls, items[Len(items) + 1 - i], data_model)]

\* [cls(client=client, obj=x, data_model=...) for x in items]
wrap_each(cls, items, data_model) ==
  [i \in 1..Len(items) |-> NeonResource(cls, items[i], data_model)]

JsonKw(body) == [NoKw EXCEPT !.json = [given |-> TRUE, body |-> body]]
ParamsKw(map) == [NoKw EXCEPT !.params = [given |-> TRUE, map |-> map]]

\* APIKey.create sending the unvalidated arguments before validating them
APIKey_create_send_first(c, key_name, rsp) ==
  LET v == ApiKeyCreateRequest(key_name)
      r == request(c, "POST", <<"api_keys">>, JsonKw([key_name |-> key_name]), rsp)
  IN IF ~v.ok
     THEN [sent |-> r.sent, out |-> Out("ValidationError", <<>>, <<>>, <<>>)]
     ELSE IF r.kind # "ok" THEN Raise(r)
          ELSE Return(r, <<NeonResource("APIKey", r.json[1].list[1], "ApiKeyCreateResponse")>>)

APIKey_create(c, key_name, rsp) ==
  LET v == ApiKeyCreateRequest(key_name)
  IN IF ~v.ok
     THEN [sent |-> <<>>, out |-> Out("ValidationError", <<>>, <<>>, <<>>)]
     ELSE LET r == request(c, "POST", <<"api_keys">>, JsonKw(model_dump(v.obj)), rsp)
          IN IF r.kind # "ok" THEN Raise(r)
             ELSE Return(r, <<NeonResource("APIKey", r.json[1].list[1], "ApiKeyCreateResponse")>>)

APIKey_list(c, rsp) ==
  LET r == request(c, "GET", <<"api_keys">>, NoKw, rsp)
  IN IF r.kind # "ok" THEN Raise(r)
     ELSE Return(r, wrap_each("APIKey", r.json[1].list, "ApiKeysListResponseItem"))

\* APIKey.revoke_request: the path reads api_key.obj.id before the request
APIKey_revoke_request(c, api_key, rsp) ==
  LET id == obj(api_key).view["id"]
      r == request(c, "DELETE", <<"api_keys", id>>, NoKw, rsp)
  IN IF r.kind # "ok" THEN Raise(r)
     ELSE Return(r, <<NeonResource("APIKey", r.json[1].list[1], "ApiKeyRevokeResponse")>>)

APIKey_revoke(c, self, rsp) == APIKey_revoke_request(c, self, rsp)

User_get_current_user_info(c, rsp) ==
  LET r == request(c, "GET", <<"users", "me">>, NoKw, rsp)
  IN IF r.kind # "ok" THEN Raise(r)
     ELSE Return(r, <<NeonResource("User", r.json[1].list[1], "CurrentUserInfoResponse")>>)

Project_list(c, shared, cursor, limit, rsp) ==
  LET r_path == IF ~shared THEN <<"projects">> ELSE <<"projects", "shared">>
      r_params == [cursor |-> cursor, limit |-> limit]
      r == request(c, "GET", r_path, ParamsKw(r_params), rsp)
  IN IF r.kind # "ok" THEN Raise(r)
     ELSE Return(r, wrap_each("Project", r.json[1].list, "ProjectListItem"))

Branch_list(c, project_id, cursor, limit, rsp) ==
  LET r_path == <<"projects", project_id, "branches">>
      r_params == compact_mapping([cursor |-> cursor, limit |-> limit])
      r == request(c, "GET", r_path, ParamsKw(r_params), rsp)
  IN IF r.kind # "ok" THEN Raise(r)
     ELSE Return(r, wrap_each("Branch", r.json[1].list, "ProjectListItem"))

\* Branch.create sending the dumped body unconditionally
Branch_create_always_body(c, project_id, endpoints, branch, extra, rsp) ==
  LET kwargs == [k \in (DOMAIN extra) \cup {"endpoints", "branch"} |->
                   CASE k = "endpoints" -> endpoints
                     [] k = "branch"    -> branch
                     [] OTHER           -> extra[k]]
      v == BranchCreateRequest(kwargs)
      r_path == url_join(<<"projects", project_id, "branches">>)
  IN IF ~v.ok
     THEN [sent |-> <<>>, out |-> Out("ValidationError", <<>>, <<>>, <<>>)]
     ELSE LET r == request(c, "POST", r_path, JsonKw(model_dump(v.obj)), rsp)
          IN IF r.kind # "ok" THEN Raise(r)
             ELSE Return(r, <<NeonResource("Branch", r.json[1].list[1], "BranchResponse")>>)

\* extra is the **kwargs mapping; endpoints and branch are keyword-only, so
\* the two setdefault calls always add them
Branch_create(c, project_id, endpoints, branch, extra, rsp) ==
  LET kwargs == [k \in (DOMAIN extra) \cup {"endpoints", "branch"} |->
                   CASE k = "endpoints" -> endpoints
                     [] k = "branch"    -> branch
                     [] OTHER           -> extra[k]]
      v == BranchCreateRequest(kwargs)
      r_path == url_join(<<"projects", project_id, "branches">>)
  IN IF ~v.ok
     THEN [sent |-> <<>>, out |-> Out("ValidationError", <<>>, <<>>, <<>>)]
     ELSE LET r == IF Truthy(v.obj["endpoints"]) \/ Truthy(v.obj["branch"])
                   THEN request(c, "POST", r_path, JsonKw(model_dump(v.obj)), rsp)
                   ELSE request(c, "POST", r_path, NoKw, rsp)
          IN IF r.kind # "ok" THEN Raise(r)
             ELSE Return(r, <<NeonResource("Branch", r.json[1].list[1], "BranchResponse")>>)

\* the facade
me(c, rsp) == User_get_current_user_info(c, rsp)
api_keys(c, rsp) == APIKey_list(c, rsp)

\* ------------------------------------------------------------------ the caller
\* NeonAPI(api_key) and NeonAPI(api_key, base_url=...)
Clients == { NeonAPI("k1", "None"), NeonAPI("k2", "http://localhost:8080/") }

CallerHeaders ==
  UNION { [D -> {<<"caller">>}] : D \in SUBSET {"Authorization", "X-Trace"} }

KeyNames == {"mykey", Invalid}
Cursors == {"None", "c1"}
Limits == {"None", "10"}
ProjectIds == {"p1"}
EndpointArgs == {"None", "[]", "[ep]", Invalid}
BranchArgs == {"None", "br"}
ExtraArgs == {EmptyMap, [foo |-> "x"]}
Names == {"id", "name", "extra", "_data_model"}

NoArgs ==
  [hgiven |-> FALSE, headers |-> EmptyMap, key_name |-> "None", shared |-> FALSE,
   cursor |-> "None", limit |-> "None", project_id |-> "None",
   endpoints |-> "None", branch |-> "None", extra |-> EmptyMap,
   idx |-> 0, name |-> "None"]

CallOps ==
  {"request", "APIKey.create", "APIKey.list", "APIKey.revoke",
   "User.get_current_user_info", "Project.list", "Branch.list", "Branch.create",
   "me", "api_keys"}
ListOps == {"APIKey.list", "Project.list", "Branch.list", "api_keys"}
AccessOps == {"obj", "getattribute", "getitem", "repr"}

Init ==
  /\ client \in Clients
  /\ last = [op |-> "init", rsp |-> NoResponse, a |-> NoArgs]
  /\ sent = <<>>
  /\ outcome = Out("none", <<>>, <<>>, <<>>)
  /\ objs = <<>>

\* The caller has not yet touched the proxies of the latest call.  What a call
\* of a class-level operation does is independent of the proxies the caller
\* holds, so these calls are explored from the untouched states only; the
\* states reached are the same.
Untouched == last.op \notin AccessOps \cup {"setdata"}

\* one call of a public operation: the caller keeps what the call returned
Call(op, a, rsp, res) ==
  /\ last' = [op |-> op, rsp |-> rsp, a |-> a]
  /\ sent' = res.sent
  /\ outcome' = res.out
  /\ objs' = res.out.ret
  /\ UNCHANGED client

\* one access to the proxy objs[i]
Access(op, i, name, res) ==
  /\ last' = [op |-> op, rsp |-> NoResponse, a |-> [NoArgs EXCEPT !.idx = i, !.name = name]]
  /\ sent' = <<>>
  /\ outcome' = [kind |-> res.kind, msg |-> <<>>, json |-> <<>>, ret |-> <<>>,
                 val |-> res.val, view |-> res.view]
  /\ objs' = [objs EXCEPT ![i] = res.p]
  /\ UNCHANGED client

\* client.request(...) called directly, with or without a headers mapping
DoRequest ==
  /\ Untouched
  /\ \E rsp \in Responses("object"), hgiven \in BOOLEAN, h \in CallerHeaders :
    /\ hgiven \/ h = EmptyMap
    /\ LET a == [NoArgs EXCEPT !.hgiven = hgiven, !.headers = h]
           r == request(client, "GET", <<"users", "me">>,
                        [NoKw EXCEPT !.hgiven = hgiven, !.headers = h], rsp)
       IN Call("request", a, rsp, [sent |-> r.sent, out |-> Out(r.kind, r.msg, r.json, <<>>)])

DoAPIKeyCreate ==
  /\ Untouched
  /\ \E rsp \in Responses("object"), key_name \in KeyNames :
    Call("APIKey.create", [NoArgs EXCEPT !.key_name = key_name], rsp,
         APIKey_create(client, key_name, rsp))

DoAPIKeyList ==
  /\ Untouched
  /\ \E rsp \in Responses("array") :
    Call("APIKey.list", NoArgs, rsp, APIKey_list(client, rsp))

DoAPIKeyRevoke ==
  \E rsp \in Responses("object"), i \in DOMAIN objs :
    /\ objs[i].cls = "APIKey"
    /\ Call("APIKey.revoke", [NoArgs EXCEPT !.idx = i], rsp,
            APIKey_revoke(client, objs[i], rsp))

DoUserInfo ==
  /\ Untouched
  /\ \E rsp \in Responses("object") :
    Call("User.get_current_user_info", NoArgs, rsp,
         User_get_current_user_info(client, rsp))

DoProjectList ==
  /\ Untouched
  /\ \E rsp \in Responses("projects"), shared \in BOOLEAN,
     cursor \in Cursors, limit \in Limits :
    Call("Project.list",
         [NoArgs EXCEPT !.shared = shared, !.cursor = cursor, !.limit = limit], rsp,
         Project_list(client, shared, cursor, limit, rsp))

DoBranchList ==
  /\ Untouched
  /\ \E rsp \in Responses("branches"), project_id \in ProjectIds,
     cursor \in Cursors, limit \in Limits :
    Call("Branch.list",
         [NoArgs EXCEPT !.project_id = project_id, !.cursor = cursor, !.limit = limit],
         rsp, Branch_list(client, project_id, cursor, limit, rsp))

DoBranchCreate ==
  /\ Untouched
  /\ \E rsp \in Responses("object"), project_id \in ProjectIds,
     endpoints \in EndpointArgs, branch \in BranchArgs, extra \in ExtraArgs :
    Call("Branch.create",
         [NoArgs EXCEPT !.project_id = project_id, !.endpoints = endpoints,
                        !.branch = branch, !.extra = extra], rsp,
         Branch_create(client, project_id, endpoints, branch, extra, rsp))

DoMe ==
  /\ Untouched
  /\ \E rsp \in Responses("object") : Call("me", NoArgs, rsp, me(client, rsp))

DoApiKeys ==
  /\ Untouched
  /\ \E rsp \in Responses("array") : Call("api_keys", NoArgs, rsp, api_keys(client, rsp))

GetObj ==
  \E i \in DOMAIN objs :
    LET o == obj(objs[i])
    IN Access("obj", i, "obj", [p |-> o.p, kind |-> "value", val |-> "None", view |-> <<o.view>>])

GetAttr ==
  \E i \in DOMAIN objs, name \in Names :
    Access("getattribute", i, name, getattribute(objs[i], name))

GetItem ==
  \E i \in DOMAIN objs, key \in Names :
    Access("getitem", i, key, getitem(objs[i], key))

Repr ==
  \E i \in DOMAIN objs : Access("repr", i, "None", repr(objs[i]))

\* the raw mapping is held by reference: the caller changes an entry of it
SetData ==
  \E i \in DOMAIN objs :
    /\ last' = [op |-> "setdata", rsp |-> NoResponse, a |-> [NoArgs EXCEPT !.idx = i]]
    /\ sent' = <<>>
    /\ outcome' = Out("none", <<>>, <<>>, <<>>)
    /\ objs' = [objs EXCEPT ![i].data =
                  [k \in (DOMAIN @) \cup {"name"} |-> IF k = "name" THEN "new" ELSE @[k]]]
    /\ UNCHANGED client

Next ==
  \/ DoRequest
  \/ DoAPIKeyCreate
  \/ DoAPIKeyList
  \/ DoAPIKeyRevoke
  \/ DoUserInfo
  \/ DoProjectList
  \/ DoBranchList
  \/ DoBranchCreate
  \/ DoMe
  \/ DoApiKeys
  \/ GetObj
  \/ GetAttr
  \/ GetItem
  \/ Repr
  \/ SetData

Spec == Init /\ [][Next]_vars

\* ==================================================================== claims
IsCall == last.op \in CallOps
IsAccess == last.op \in AccessOps

\* C1: every request put on the wire carries Authorization = Bearer <api key>,
\* Accept and Content-Type = application/json and User-Agent =
\* neon-client/<version>, whatever headers the caller passed, and every
\* caller header with another name is still there with its value.
C1_MandatoryHeaders ==
  \A i \in DOMAIN sent :
    LET h == sent[i].headers
    IN /\ {"Authorization", "Accept", "Content-Type", "User-Agent"} \subseteq DOMAIN h
       /\ h["Authorization"] = <<"Bearer ", client.api_key>>
       /\ h["Accept"] = <<"application/json">>
       /\ h["Content-Type"] = <<"application/json">>
       /\ h["User-Agent"] = <<"neon-client/", "0.1.0">>
       /\ \A n \in DOMAIN last.a.headers :
            n \notin {"Authorization", "Accept", "Content-Type", "User-Agent"}
              => n \in DOMAIN h /\ h[n] = last.a.headers[n]

C1_Witness ==
  /\ last.op = "request"
  /\ last.a.hgiven
  /\ DOMAIN last.a.headers = {"Authorization", "X-Trace"}
  /\ Len(sent) = 1
  /\ sent[1].headers["X-Trace"] = <<"caller">>

\* C2: when request fails on the response status, the exception message is
\* the raw response text and the resource operation returns nothing: the
\* caller gets the exception, no proxy and no partial list.
C2_ErrorCarriesRawText ==
  /\ (IsCall /\ sent # <<>> /\ last.rsp.status >= 400 /\ last.rsp.status <= 599)
        => outcome.kind = "NeonClientException"
  /\ outcome.kind = "NeonClientException"
        => /\ outcome.msg = <<last.rsp.text>>
           /\ outcome.ret = <<>>
           /\ outcome.json = <<>>
           /\ objs = <<>>

C2_Witness ==
  /\ last.op = "Project.list"
  /\ last.rsp.status = 400
  /\ Len(last.rsp.text.list) = 2
  /\ outcome.kind = "NeonClientException"

\* C3 as stated: request raises the HTTP-failure error for every status
\* outside 200..299 and returns the decoded body for every status inside.
C3_Original ==
  (IsCall /\ sent # <<>>)
    => /\ (last.rsp.status < 200 \/ last.rsp.status > 299)
             => outcome.kind = "NeonClientException"
       /\ (last.rsp.status >= 200 /\ last.rsp.status <= 299)
             => outcome.kind = "ok"

\* C3 amended: request raises the HTTP-failure error exactly for the statuses
\* 400..599; for every other status (1xx, 2xx, 3xx) it decodes the body:
\* a JSON body is returned decoded, a body that is not JSON is a decode error.
C3_RaisesOn4xx5xx ==
  (IsCall /\ sent # <<>>)
    => /\ outcome.kind = "NeonClientException"
             <=> (last.rsp.status >= 400 /\ last.rsp.status <= 599)
       /\ (last.rsp.status < 400 /\ last.rsp.text.shape \notin {"empty", "plain"})
             => outcome.kind = "ok" /\ outcome.json = <<last.rsp.text>>
       /\ (last.rsp.status < 400 /\ last.rsp.text.shape \in {"empty", "plain"})
             => outcome.kind = "JSONDecodeError"

C3_Witness ==
  /\ last.op = "request"
  /\ last.rsp.status = 399
  /\ outcome.kind = "ok"
  /\ outcome.json = <<last.rsp.text>>

\* C4 as stated: Branch.create sends no body when neither endpoints nor
\* branch is supplied and a JSON body in every call where one is supplied.
C4_Original ==
  (last.op = "Branch.create" /\ sent # <<>>)
    => (sent[1].json.given
          <=> (last.a.endpoints # "None" \/ last.a.branch # "None"))

\* C4 amended: Branch.create issues one POST to projects/{project_id}/branches;
\* it has no body at all when endpoints is None or an empty list and branch
\* is None, and otherwise its JSON body is the validated fields (endpoints,
\* branch and the extra keyword fields); an empty object is never sent.
C4_BodyOnlyWhenNonEmpty ==
  (last.op = "Branch.create" /\ outcome.kind # "ValidationError")
    => /\ Len(sent) = 1
       /\ sent[1].method = "POST"
       /\ sent[1].url = <<client.base_url, <<"projects", last.a.project_id, "branches">>>>
       /\ sent[1].json.given
            <=> (last.a.endpoints \notin {"None", "[]"} \/ last.a.branch # "None")
       /\ sent[1].json.given
            => /\ DOMAIN sent[1].json.body
                    = {"endpoints", "branch"} \cup DOMAIN last.a.extra
               /\ sent[1].json.body["endpoints"] = last.a.endpoints
               /\ sent[1].json.body["branch"] = last.a.branch
               /\ \A k \in DOMAIN last.a.extra :
                    sent[1].json.body[k] = last.a.extra[k]
       /\ ~sent[1].json.given => sent[1].json.body = EmptyMap

C4_Witness ==
  /\ last.op = "Branch.create"
  /\ last.a.endpoints = "[]"
  /\ last.a.branch = "None"
  /\ DOMAIN last.a.extra = {"foo"}
  /\ Len(sent) = 1
  /\ ~sent[1].json.given

\* C5: a successful list call returns exactly one proxy per element of the
\* response array, in response order, the i-th proxy wrapping the i-th
\* element as its raw mapping.
C5_ListPreservesArray ==
  (last.op \in ListOps /\ outcome.kind = "ok")
    => /\ Len(outcome.ret) = Len(last.rsp.text.list)
       /\ \A i \in DOMAIN outcome.ret :
            /\ outcome.ret[i].data = last.rsp.text.list[i]
            /\ outcome.ret[i].cached = <<>>

C5_Witness ==
  /\ last.op = "Branch.list"
  /\ outcome.kind = "ok"
  /\ Len(outcome.ret) = 2
  /\ outcome.ret[1].data # outcome.ret[2].data

\* C6: for Project.list and Branch.list alike, the params mapping handed to
\* request holds exactly the keys among cursor and limit whose value is not
\* None, each with the caller's value.
C6_ParamsCompacted ==
  (last.op \in {"Project.list", "Branch.list"} /\ sent # <<>>)
    => /\ sent[1].params.given
       /\ DOMAIN sent[1].params.map
            = { k \in {"cursor", "limit"} : last.a[k] # "None" }
       /\ \A k \in DOMAIN sent[1].params.map : sent[1].params.map[k] = last.a[k]

\* C7: the typed view of a proxy is constructed at most once; every later
\* access (obj, attribute, item, repr) gets that same view, also after the
\* raw mapping has been changed.
C7_ViewBuiltOnce ==
  /\ [](\A i \in DOMAIN objs :
          /\ objs[i].built <= 1
          /\ objs[i].built = 1 <=> objs[i].cached # <<>>)
  /\ [][(last'.op \in AccessOps \cup {"setdata"})
          => \A i \in DOMAIN objs :
               objs[i].cached # <<>>
                 => /\ objs'[i].cached = objs[i].cached
                    /\ (i = last'.a.idx /\ outcome'.view # <<>>)
                          => outcome'.view = objs[i].cached]_vars

C7_Witness ==
  /\ last.op = "getattribute"
  /\ last.a.name = "name"
  /\ last.a.idx \in DOMAIN objs
  /\ "name" \in DOMAIN objs[last.a.idx].data
  /\ objs[last.a.idx].data["name"] = "new"
  /\ objs[last.a.idx].built = 1
  /\ outcome.kind = "value"
  /\ outcome.val = "n1"

\* C8: every action of the caller puts at most one HTTP request on the wire,
\* on success and on failure alike, and an access to a proxy puts none.
C8_AtMostOneRequest ==
  /\ Len(sent) <= 1
  /\ ~IsCall => sent = <<>>

C8_Witness ==
  /\ last.op = "APIKey.revoke"
  /\ outcome.kind = "NeonClientException"
  /\ Len(sent) = 1

C10_ValidateBeforeSend ==
  /\ (last.op = "APIKey.create" /\ last.a.key_name = "<invalid>")
        => outcome.kind = "ValidationError" /\ sent = <<>> /\ outcome.ret = <<>>
  /\ (last.op = "Branch.create" /\ last.a.endpoints = "<invalid>")
        => outcome.kind = "ValidationError" /\ sent = <<>> /\ outcome.ret = <<>>

C10_Witness ==
  /\ last.op = "APIKey.create"
  /\ last.a.key_name = "<invalid>"
  /\ outcome.kind = "ValidationError"

====
